---- MODULE Spec2Model ----
(***************************************************************************)
(* Battery simulation of src/app.py: the sidebar settings, the preparation *)
(* of the uploaded quarter-hour CSV, the simulation loop over the          *)
(* quarter-hour buckets and the summary / monthly savings.                 *)
(*                                                                         *)
(* Numbers.  The program computes in floating point.  Here every energy is *)
(* an integer number of units, kWh units to the kilowatt-hour.  The unit   *)
(* is chosen so that every product and quotient the loop forms on the      *)
(* settings and meter values below is a whole number of units (the model   *)
(* computes over the reals, rounding of the floats is not modelled).       *)
(* Efficiencies are percentages, the reaction factor is kept in 900ths,    *)
(* prices are euro cents per kWh, so money is in cent-units.               *)
(*                                                                         *)
(* The guard 1e-9 in the two divisions of the loop (lines 78 and 81):      *)
(*   - when eff * vertraging > 0 it changes the quotient by less than      *)
(*     10^-8 kWh, a hundredth of a unit, and DivGuard returns x / k;       *)
(*   - when eff * vertraging = 0 the quotient is x / 1e-9 = x * 10^9.      *)
(*     DivGuard returns x * InvGuard, where InvGuard stands for 10^9: it   *)
(*     is large enough that a positive meter value times InvGuard exceeds  *)
(*     every other candidate of min(), which is all that the loop's        *)
(*     decisions depend on.                                                *)
(*                                                                         *)
(* Settings.  Instellingen holds the values of the sidebar widgets (lines  *)
(* 22-31) and, beside them, settings of the SimulationConfig domain of the *)
(* specification that the widgets exclude (zero efficiency, reaction time  *)
(* 900 s, SoC limits on one side of 50%).  BinnenSliders tells them apart. *)
(***************************************************************************)
EXTENDS Integers, Sequences, FiniteSets

\* ------------------------------------------------------------------ units
\* one kWh in units: 8 * 380 * 380, so that an eighth of a kWh is a multiple
\* of 380^2 and the settings' energies are multiples of 380 = lcm(4*5*19)
kWh == 8 * 380 * 380

\* stand-in for 1 / 1e-9 (see the header)
InvGuard == 100

\* tolerance of line 104-105 (1e-6 kWh = 1.155 units; on whole units the
\* comparisons x >= y - 1e-6 and x >= y - 1 agree)
Tol == 1

kwartier_per_uur == 4

\* ------------------------------------------------------------- bounds
MaxRows == 2

\* ------------------------------------------------------------- helpers
Min2(a, b) == IF a <= b THEN a ELSE b
Max2(a, b) == IF a >= b THEN a ELSE b
Min3(a, b, c) == Min2(a, Min2(b, c))

RECURSIVE GCD(_, _)
GCD(a, b) == IF b = 0 THEN a ELSE GCD(b, a % b)

\* ------------------------------------------------------------- settings
NaN == <<>>
NaT == 0

\* eff_laden / eff_ontladen with the reaction time of the same side
Omvormers ==
  { [eff |-> 100, reactietijd |-> 0],
    [eff |-> 95,  reactietijd |-> 0],
    [eff |-> 0,   reactietijd |-> 0],
    [eff |-> 95,  reactietijd |-> 900] }

SoCGrenzen ==
  { <<10, 90>>, <<40, 60>>, <<50, 50>>, <<50, 90>>, <<10, 40>>, <<60, 90>> }

\* max_vermogen_kW, in units per hour: 2.5 kW (default) and 20 kW (maximum)
Vermogens == { (5 * kWh) \div 2, 20 * kWh }

Instelling(cap, p, l, o, s) ==
  [ batterij_capaciteit  |-> cap,
    max_vermogen_kW      |-> p,
    eff_laden            |-> l.eff,
    eff_ontladen         |-> o.eff,
    soc_min_pct          |-> s[1],
    soc_max_pct          |-> s[2],
    reactietijd_laden    |-> l.reactietijd,
    reactietijd_ontladen |-> o.reactietijd,
    prijs_import         |-> 30,
    prijs_export         |-> 7 ]

\* a battery of 5 kWh (the default) with every combination of the settings
\* above, and a battery of capacity 0 with the default SoC limits
Instellingen ==
  { Instelling(5 * kWh, p, l, o, s) :
      p \in Vermogens, l \in Omvormers, o \in Omvormers, s \in SoCGrenzen }
  \cup
  { Instelling(0, p, l, o, <<10, 90>>) :
      p \in Vermogens, l \in Omvormers, o \in Omvormers }

\* the ranges of the sidebar widgets, lines 22-29
BinnenSliders(c) ==
  /\ c.batterij_capaciteit >= kWh /\ c.batterij_capaciteit <= 100 * kWh
  /\ 10 * c.max_vermogen_kW >= kWh /\ c.max_vermogen_kW <= 20 * kWh
  /\ c.eff_laden \in 70..100 /\ c.eff_ontladen \in 70..100
  /\ c.soc_min_pct \in 0..50 /\ c.soc_max_pct \in 50..100
  /\ c.reactietijd_laden \in 0..60 /\ c.reactietijd_ontladen \in 0..60

\* --------------------------------------------------- derived settings
\* lines 56-60
MaxEnergiePerKwartier(c) == c.max_vermogen_kW \div kwartier_per_uur
SocMin(c) == (c.soc_min_pct * c.batterij_capaciteit) \div 100
SocMax(c) == (c.soc_max_pct * c.batterij_capaciteit) \div 100
\* vertraging in 900ths: max(0, min(1, 1 - reactietijd / 900))
Vertraging(reactietijd) == Max2(0, Min2(900, 900 - reactietijd))

\* eff * vertraging as a reduced fraction num/den of 90000
KNum(eff, reactietijd) ==
  LET n == eff * Vertraging(reactietijd) IN n \div GCD(90000, n)
KDen(eff, reactietijd) ==
  LET n == eff * Vertraging(reactietijd) IN 90000 \div GCD(90000, n)

\* x * eff * vertraging
MulK(x, eff, reactietijd) == (x * KNum(eff, reactietijd)) \div KDen(eff, reactietijd)
\* x / (eff * vertraging + 1e-9)
DivGuard(x, eff, reactietijd) ==
  IF KNum(eff, reactietijd) = 0
  THEN x * InvGuard
  ELSE (x * KDen(eff, reactietijd)) \div KNum(eff, reactietijd)

\* ------------------------------------------------------ the CSV rows
\* datetime: 1 and 2 lie in one calendar month, 5 two months later
Tijden == {1, 2, 5}
Maand(t) == (t + 1) \div 2

\* rows after lines 45-48: vermogen is <<v>> or NaN (not a number),
\* datetime is a time or NaT (not a date)
\* (well-formed rows of 1 kWh and 0.25 kWh, and one row each with an
\* unparseable value, a negative value and an unparseable time)
Rijen ==
  { [datetime |-> t, type |-> ty, vermogen |-> <<kWh>>] :
      t \in Tijden, ty \in {"afname", "injectie"} }
  \cup { [datetime |-> 1, type |-> ty, vermogen |-> <<kWh \div 4>>] :
      ty \in {"afname", "injectie"} }
  \cup { [datetime |-> 1, type |-> "afname", vermogen |-> NaN],
         [datetime |-> 2, type |-> "injectie", vermogen |-> <<-(kWh \div 4)>>],
         [datetime |-> NaT, type |-> "afname", vermogen |-> <<kWh>>] }

Bestanden == UNION { [1..n -> Rijen] : n \in 0..MaxRows }

\* lines 49-50: contains(type) * vermogen; NaN stays NaN
Kolom(rij, ty) ==
  IF rij.vermogen = NaN THEN NaN
  ELSE IF rij.type = ty THEN rij.vermogen ELSE <<0>>

\* groupby(...).sum(): NaN is skipped
RECURSIVE SomKolom(_, _, _, _)
SomKolom(d, t, ty, n) ==
  IF n = 0 THEN 0
  ELSE LET k == Kolom(d[n], ty)
           rest == SomKolom(d, t, ty, n - 1)
       IN IF d[n].datetime = t /\ k # NaN THEN rest + k[1] ELSE rest

\* line 51 sorted in descending order
RECURSIVE Gesorteerd_Aflopend(_)
Gesorteerd_Aflopend(S) ==
  IF S = {} THEN <<>>
  ELSE LET m == CHOOSE x \in S : \A y \in S : x >= y
       IN <<m>> \o Gesorteerd_Aflopend(S \ {m})

RECURSIVE Gesorteerd(_)
Gesorteerd(S) ==
  IF S = {} THEN <<>>
  ELSE LET m == CHOOSE x \in S : \A y \in S : x <= y
       IN <<m>> \o Gesorteerd(S \ {m})

\* line 51: groupby drops the NaT key, sums per datetime, sorted by datetime
DfKwartier(d) ==
  LET sleutels == Gesorteerd({d[n].datetime : n \in DOMAIN d} \ {NaT})
  IN [ j \in DOMAIN sleutels |->
         [ datetime |-> sleutels[j],
           afname   |-> SomKolom(d, sleutels[j], "afname", Len(d)),
           injectie |-> SomKolom(d, sleutels[j], "injectie", Len(d)) ] ]

\* ------------------------------------------------------ the loop body
\* line 74
PotentieelOpladen(c, injectie) ==
  MulK(injectie, c.eff_laden, c.reactietijd_laden)
\* line 75 without the room left below soc_max
EffectiefOpladen_ZonderSocMax(c, injectie, niveau) ==
  Min2(PotentieelOpladen(c, injectie), MaxEnergiePerKwartier(c))
\* line 75
EffectiefOpladen(c, injectie, niveau) ==
  Min3(PotentieelOpladen(c, injectie), MaxEnergiePerKwartier(c), SocMax(c) - niveau)
\* line 78 without the division by the efficiency
NaarNet_ZonderRendement(c, injectie, opladen) == Max2(injectie - opladen, 0)
\* line 78 with the charged energy added to the export
NaarNet_Opgeteld(c, injectie, opladen) ==
  Max2(injectie + DivGuard(opladen, c.eff_laden, c.reactietijd_laden), 0)
\* line 78
NaarNet(c, injectie, opladen) ==
  Max2(injectie - DivGuard(opladen, c.eff_laden, c.reactietijd_laden), 0)
\* lines 81-83 without the inverter's limit
PotentieelOntladen_ZonderVermogen(c, afname, niveau) ==
  Min2(DivGuard(afname, c.eff_ontladen, c.reactietijd_ontladen), niveau - SocMin(c))
\* lines 81-83 without the energy held above soc_min
PotentieelOntladen_ZonderSocMin(c, afname, niveau) ==
  Min2(DivGuard(afname, c.eff_ontladen, c.reactietijd_ontladen),
       MaxEnergiePerKwartier(c))
\* lines 81-83; niveau is the level after line 76
PotentieelOntladen(c, afname, niveau) ==
  Min3(DivGuard(afname, c.eff_ontladen, c.reactietijd_ontladen),
       MaxEnergiePerKwartier(c), niveau - SocMin(c))
\* line 84 dividing by the efficiency instead of multiplying
EffectiefOntladen_Gedeeld(c, ontladen) ==
  DivGuard(ontladen, c.eff_ontladen, c.reactietijd_ontladen)
\* line 84
EffectiefOntladen(c, ontladen) ==
  MulK(ontladen, c.eff_ontladen, c.reactietijd_ontladen)
\* line 86 with the operands exchanged
VanNet_Omgekeerd(afname, effectief) == Max2(effectief - afname, 0)
\* line 86
VanNet(afname, effectief) == Max2(afname - effectief, 0)

\* the loop body with the discharge evaluated against the level before the charge
Stap_OntladenEerst(c, r, niveau) ==
  LET opl  == EffectiefOpladen(c, r.injectie, niveau)
      na   == niveau + opl
      pont == PotentieelOntladen(c, r.afname, niveau)
      eont == EffectiefOntladen(c, pont)
  IN [ niveau_voor         |-> niveau,
       afname              |-> r.afname,
       injectie            |-> r.injectie,
       potentieel_opladen  |-> PotentieelOpladen(c, r.injectie),
       effectief_opladen   |-> opl,
       niveau_na_laden     |-> na,
       naar_net            |-> NaarNet(c, r.injectie, opl),
       potentieel_ontladen |-> pont,
       effectief_ontladen  |-> eont,
       van_net             |-> VanNet(r.afname, eont),
       batterij_niveau     |-> na - pont ]

\* the locals of one pass of the loop, lines 68-86, from the level before it
Stap(c, r, niveau) ==
  LET opl  == EffectiefOpladen(c, r.injectie, niveau)
      na   == niveau + opl
      pont == PotentieelOntladen(c, r.afname, na)
      eont == EffectiefOntladen(c, pont)
  IN [ niveau_voor         |-> niveau,
       afname              |-> r.afname,
       injectie            |-> r.injectie,
       potentieel_opladen  |-> PotentieelOpladen(c, r.injectie),
       effectief_opladen   |-> opl,
       niveau_na_laden     |-> na,
       naar_net            |-> NaarNet(c, r.injectie, opl),
       potentieel_ontladen |-> pont,
       effectief_ontladen  |-> eont,
       van_net             |-> VanNet(r.afname, eont),
       batterij_niveau     |-> na - pont ]

GeenStap ==
  [ niveau_voor |-> 0, afname |-> 0, injectie |-> 0, potentieel_opladen |-> 0,
    effectief_opladen |-> 0, niveau_na_laden |-> 0, naar_net |-> 0,
    potentieel_ontladen |-> 0, effectief_ontladen |-> 0, van_net |-> 0,
    batterij_niveau |-> 0 ]

\* ------------------------------------------------------------- summary
\* groupby("maand")[veld].sum(): the sum of veld over the rows of month m
RECURSIVE SomMaand(_, _, _, _)
SomMaand(s, veld, tijdveld, m) ==
  IF s = <<>> THEN 0
  ELSE (IF Maand(Head(s)[tijdveld]) = m THEN Head(s)[veld] ELSE 0)
       + SomMaand(Tail(s), veld, tijdveld, m)

\* lines 104-105
IsVol(c, e) == e.batterij_niveau >= SocMax(c) - Tol
IsLeeg(c, e) == e.batterij_niveau <= SocMin(c) + Tol

\* lines 107-108: res["is_vol"].sum() and res["is_leeg"].sum()
AantalVol(c, res) == Cardinality({n \in DOMAIN res : IsVol(c, res[n])})
AantalLeeg(c, res) == Cardinality({n \in DOMAIN res : IsLeeg(c, res[n])})

\* lines 114-115 and 147-148
Besparing(c, zonder_van, van, naar, zonder_naar) ==
  (zonder_van - van) * c.prijs_import + (naar - zonder_naar) * c.prijs_export

\* lines 141-153 with the injectie baseline of the whole file in every month
MaandDf_InjectieTotaal(c, res, dfk) ==
  LET maanden == Gesorteerd({Maand(res[n].tijd) : n \in DOMAIN res})
  IN [ j \in DOMAIN maanden |->
       LET m == maanden[j] IN
       [ Maand |-> m,
         Winst |-> Besparing(c,
                     SomMaand(dfk, "afname", "datetime", m),
                     SomMaand(res, "van_net", "tijd", m),
                     SomMaand(res, "naar_net", "tijd", m),
                     SomMaand(dfk, "injectie", "datetime", Maand(dfk[1].datetime))) ] ]

\* lines 141-153 with a row for every month from the first to the last
MaandDf_MetLegeMaanden(c, res, dfk) ==
  LET aanwezig == Gesorteerd({Maand(res[n].tijd) : n \in DOMAIN res})
      eerste == aanwezig[1]
      laatste == aanwezig[Len(aanwezig)]
  IN [ j \in 1..(laatste - eerste + 1) |->
       LET m == eerste + j - 1 IN
       [ Maand |-> m,
         Winst |-> Besparing(c,
                     SomMaand(dfk, "afname", "datetime", m),
                     SomMaand(res, "van_net", "tijd", m),
                     SomMaand(res, "naar_net", "tijd", m),
                     SomMaand(dfk, "injectie", "datetime", m)) ] ]

\* lines 141-153: one row per month present in res, in month order
MaandDf(c, res, dfk) ==
  LET maanden == Gesorteerd({Maand(res[n].tijd) : n \in DOMAIN res})
  IN [ j \in DOMAIN maanden |->
       LET m == maanden[j] IN
       [ Maand |-> m,
         Winst |-> Besparing(c,
                     SomMaand(dfk, "afname", "datetime", m),
                     SomMaand(res, "van_net", "tijd", m),
                     SomMaand(res, "naar_net", "tijd", m),
                     SomMaand(dfk, "injectie", "datetime", m)) ] ]

GeenSamenvatting ==
  [ tijd_vol |-> 0, tijd_leeg |-> 0, tijd_totaal |-> 0,
    pct_vol |-> 0, pct_leeg |-> 0, besparing |-> 0 ]

\* ------------------------------------------------------------- state
VARIABLES
  pc,            \* "wachten" (no file), "simulatie" (in the loop, lines 67-99),
                 \* "klaar" (summary shown), "fout" (st.error, line 42),
                 \* "exceptie" (uncaught exception)
  cfg,           \* the sidebar settings
  df,            \* the rows of the uploaded file after lines 45-48
  df_kwartier,   \* line 51
  i,             \* number of rows of df_kwartier the loop has passed
  batterij_niveau,
  energie_op_batterij, energie_van_net, energie_naar_net,
  energie_zonder_batterij_van_net, energie_zonder_batterij_naar_net,
  stap,          \* the locals of the last pass of the loop
  resultaten,    \* line 90
  samenvatting,  \* lines 107-115
  maand_df       \* lines 150-153

totalen == << energie_op_batterij, energie_van_net, energie_naar_net,
              energie_zonder_batterij_van_net, energie_zonder_batterij_naar_net >>
vars == << pc, cfg, df, df_kwartier, i, batterij_niveau, totalen, stap,
           resultaten, samenvatting, maand_df >>

Init ==
  /\ pc = "wachten"
  /\ cfg \in Instellingen
  /\ df = <<>>
  /\ df_kwartier = <<>>
  /\ i = 0
  /\ batterij_niveau = 0
  /\ energie_op_batterij = 0 /\ energie_van_net = 0 /\ energie_naar_net = 0
  /\ energie_zonder_batterij_van_net = 0
  /\ energie_zonder_batterij_naar_net = 0
  /\ stap = GeenStap
  /\ resultaten = <<>>
  /\ samenvatting = GeenSamenvatting
  /\ maand_df = <<>>

\* lines 36-42: a file without the required columns
UploadZonderKolommen ==
  /\ pc = "wachten"
  /\ pc' = "fout"
  /\ UNCHANGED << cfg, df, df_kwartier, i, batterij_niveau, totalen, stap,
                  resultaten, samenvatting, maand_df >>

\* lines 36-65: a file with the required columns is prepared and the
\* simulation variables are set
Upload ==
  /\ pc = "wachten"
  /\ \E bestand \in Bestanden :
       /\ df' = bestand
       /\ df_kwartier' = DfKwartier(bestand)
  /\ batterij_niveau' = cfg.batterij_capaciteit \div 2
  /\ energie_op_batterij' = 0 /\ energie_van_net' = 0 /\ energie_naar_net' = 0
  /\ energie_zonder_batterij_van_net' = 0
  /\ energie_zonder_batterij_naar_net' = 0
  /\ resultaten' = <<>>
  /\ i' = 0
  /\ pc' = "simulatie"
  /\ UNCHANGED << cfg, stap, samenvatting, maand_df >>

\* lines 67-99: one pass of the loop
Kwartier ==
  /\ pc = "simulatie"
  /\ i < Len(df_kwartier)
  /\ LET r == df_kwartier[i + 1]
         s == Stap(cfg, r, batterij_niveau)
     IN /\ stap' = s
        /\ energie_zonder_batterij_van_net' = energie_zonder_batterij_van_net + s.afname
        /\ energie_zonder_batterij_naar_net' = energie_zonder_batterij_naar_net + s.injectie
        /\ batterij_niveau' = s.batterij_niveau
        /\ energie_op_batterij' = energie_op_batterij + s.effectief_opladen
        /\ energie_van_net' = energie_van_net + s.van_net
        /\ energie_naar_net' = energie_naar_net + s.naar_net
        /\ resultaten' = Append(resultaten,
             [ tijd            |-> r.datetime,
               afname          |-> s.afname,
               injectie        |-> s.injectie,
               opladen         |-> s.effectief_opladen,
               ontladen        |-> s.effectief_ontladen,
               van_net         |-> s.van_net,
               naar_net        |-> s.naar_net,
               batterij_niveau |-> s.batterij_niveau ])
  /\ i' = i + 1
  /\ UNCHANGED << pc, cfg, df, df_kwartier, samenvatting, maand_df >>

\* lines 101-153 after a loop that appended at least one row
Afronden ==
  /\ pc = "simulatie"
  /\ i = Len(df_kwartier)
  /\ Len(resultaten) > 0
  /\ LET vol    == AantalVol(cfg, resultaten)
         leeg   == AantalLeeg(cfg, resultaten)
         totaal == Len(resultaten)
     IN samenvatting' =
          [ tijd_vol    |-> vol,
            tijd_leeg   |-> leeg,
            tijd_totaal |-> totaal,
            pct_vol     |-> (1000 * vol) \div totaal,
            pct_leeg    |-> (1000 * leeg) \div totaal,
            besparing   |-> Besparing(cfg, energie_zonder_batterij_van_net,
                              energie_van_net, energie_naar_net,
                              energie_zonder_batterij_naar_net) ]
  /\ maand_df' = MaandDf(cfg, resultaten, df_kwartier)
  /\ pc' = "klaar"
  /\ UNCHANGED << cfg, df, df_kwartier, i, batterij_niveau, totalen, stap,
                  resultaten >>

\* lines 101-104 after a loop over no rows: res has no columns and
\* res["batterij_niveau (kWh)"] raises KeyError
AfrondenLeeg ==
  /\ pc = "simulatie"
  /\ i = Len(df_kwartier)
  /\ Len(resultaten) = 0
  /\ pc' = "exceptie"
  /\ UNCHANGED << cfg, df, df_kwartier, i, batterij_niveau, totalen, stap,
                  resultaten, samenvatting, maand_df >>

Next ==
  \/ UploadZonderKolommen
  \/ Upload
  \/ Kwartier
  \/ Afronden
  \/ AfrondenLeeg

Spec == Init /\ [][Next]_vars

\* =================================================================
\* Properties
\* =================================================================
SocMinKWh == SocMin(cfg)
SocMaxKWh == SocMax(cfg)
MaxEnergie == MaxEnergiePerKwartier(cfg)
KLadenNul == KNum(cfg.eff_laden, cfg.reactietijd_laden) = 0
KOntladenNul == KNum(cfg.eff_ontladen, cfg.reactietijd_ontladen) = 0

\* the buckets the loop has passed have non-negative afname and injectie
NietNegatief ==
  \A n \in 1..i : df_kwartier[n].afname >= 0 /\ df_kwartier[n].injectie >= 0

\* a row that is not a finite non-negative energy at a parseable time
Misvormd(rij) ==
  \/ rij.vermogen = NaN
  \/ rij.datetime = NaT
  \/ (rij.vermogen # NaN /\ rij.vermogen[1] < 0)

\* every row of the file is a finite non-negative energy at a parseable time
SchoneInvoer == \A n \in DOMAIN df : ~Misvormd(df[n])

\* capacity_kWh > 0 and soc_min_pct < soc_max_pct
GeldigeInstelling ==
  cfg.batterij_capaciteit > 0 /\ cfg.soc_min_pct < cfg.soc_max_pct

\* the initial level capacity/2 lies within the SoC limits
GrenzenRondStart ==
  cfg.soc_min_pct <= 50 /\ 50 <= cfg.soc_max_pct

\* ---- C1: SoC bounds.  With capacity > 0, soc_min_pct < soc_max_pct and
\* non-negative buckets, every batterij_niveau recorded in the trace lies
\* between soc_min - eps and soc_max + eps.
C1_SoCBounds ==
  (GeldigeInstelling /\ NietNegatief) =>
    \A n \in DOMAIN resultaten :
      /\ SocMinKWh - Tol <= resultaten[n].batterij_niveau
      /\ resultaten[n].batterij_niveau <= SocMaxKWh + Tol

\* a run within the sliders' ranges in which charging was cut off by soc_max
\* and, in a later bucket, discharging was cut off by soc_min
C1_Witness ==
  /\ GeldigeInstelling /\ NietNegatief /\ BinnenSliders(cfg)
  /\ Len(resultaten) = 2
  /\ resultaten[1].batterij_niveau = SocMaxKWh
  /\ resultaten[1].opladen > 0
  /\ resultaten[1].opladen
       < Min2(PotentieelOpladen(cfg, resultaten[1].injectie), MaxEnergie)
  /\ stap.batterij_niveau = SocMinKWh
  /\ stap.potentieel_ontladen > 0
  /\ stap.potentieel_ontladen
       < Min2(DivGuard(stap.afname, cfg.eff_ontladen, cfg.reactietijd_ontladen),
              MaxEnergie)

\* ---- C2: rate limits.  In every step effectief_opladen and
\* potentieel_ontladen are at most max_energie_per_kwartier
\* (= max_vermogen_kW * 0.25).
C2_RateLimits ==
  i > 0 =>
    /\ stap.effectief_opladen <= MaxEnergie
    /\ stap.potentieel_ontladen <= MaxEnergie
    /\ 4 * MaxEnergie = cfg.max_vermogen_kW

\* a step in which the inverter's power cut off both charging and discharging
C2_Witness ==
  /\ i > 0 /\ BinnenSliders(cfg)
  /\ stap.effectief_opladen = MaxEnergie
  /\ stap.potentieel_opladen > MaxEnergie
  /\ stap.potentieel_ontladen = MaxEnergie
  /\ stap.afname > MaxEnergie

C6_InvalidConfigFails ==
  (~GeldigeInstelling /\ BinnenSliders(cfg)) =>
    /\ resultaten = <<>>
    /\ i = 0
    /\ samenvatting = GeenSamenvatting
    /\ pc # "klaar"

\* ---- C7: malformed bucket data fails the run.  When a value of the file is
\* unparseable or negative, or a time unparseable, no simulation step is
\* made and no summary is produced.
C7_MalformedDataFails ==
  (BinnenSliders(cfg) /\ \E n \in DOMAIN df : Misvormd(df[n])) =>
    /\ resultaten = <<>>
    /\ i = 0
    /\ pc # "klaar"

RECURSIVE SomWinst(_)
SomWinst(m) == IF m = <<>> THEN 0 ELSE Head(m).Winst + SomWinst(Tail(m))

\* ---- C8: financial identity.  The besparing computed from the cumulative
\* totals equals the sum of the monthly Winst values.
C8_FinancialIdentity ==
  pc = "klaar" => samenvatting.besparing = SomWinst(maand_df)

\* a finished run over two calendar months with savings in each
C8_Witness ==
  /\ pc = "klaar"
  /\ Len(maand_df) = 2
  /\ maand_df[1].Winst # 0 /\ maand_df[2].Winst # 0
  /\ maand_df[1].Winst # maand_df[2].Winst

\* ---- C9: charge-first ordering.  The discharge of a step is limited by
\* the level after that step's charge: potentieel_ontladen is the minimum of
\* afname / (eff * vertraging), max_energie_per_kwartier and
\* (niveau_voor + effectief_opladen) - soc_min.
C9_ChargeFirst ==
  i > 0 =>
    stap.potentieel_ontladen =
      Min3(DivGuard(stap.afname, cfg.eff_ontladen, cfg.reactietijd_ontladen),
           MaxEnergie,
           (stap.niveau_voor + stap.effectief_opladen) - SocMinKWh)

\* a bucket with afname and injectie in which more is discharged than the
\* battery held above soc_min before the bucket
C9_Witness ==
  /\ i > 0 /\ BinnenSliders(cfg) /\ NietNegatief
  /\ stap.injectie > 0 /\ stap.afname > 0
  /\ stap.effectief_opladen > 0
  /\ stap.niveau_voor >= SocMinKWh
  /\ stap.potentieel_ontladen > stap.niveau_voor - SocMinKWh

\* efficiencies 1, reaction times 0, and an inverter that never limits
IdealeBuffer ==
  /\ cfg.eff_laden = 100 /\ cfg.eff_ontladen = 100
  /\ cfg.reactietijd_laden = 0 /\ cfg.reactietijd_ontladen = 0
  /\ i > 0 /\ NietNegatief
  /\ MaxEnergie >= stap.injectie /\ MaxEnergie >= stap.afname
  /\ MaxEnergie >= cfg.batterij_capaciteit

Abs(x) == IF x < 0 THEN -x ELSE x

\* ---- C10 as stated: in the ideal case van_net of every step equals
\* max(afname - min(injectie, niveau_voor - soc_min), 0).
C10_IdealBufferOriginal ==
  (IdealeBuffer /\ BinnenSliders(cfg)) =>
    stap.van_net =
      Max2(stap.afname - Min2(stap.injectie, stap.niveau_voor - SocMinKWh), 0)

\* ---- C10 amended: in the ideal case van_net of every step equals, within
\* eps, max(afname - (niveau_voor + min(injectie, soc_max - niveau_voor)
\* - soc_min), 0): the import is served from all energy above soc_min after
\* the step's charge.
C10_IdealBuffer ==
  IdealeBuffer =>
    Abs(stap.van_net -
        Max2(stap.afname - ((stap.niveau_voor
                             + Min2(stap.injectie, SocMaxKWh - stap.niveau_voor))
                            - SocMinKWh), 0)) <= Tol

\* an ideal step that serves part of the import from the battery, part of it
\* from energy charged in the same bucket
C10_Witness ==
  /\ IdealeBuffer /\ BinnenSliders(cfg)
  /\ stap.injectie > 0
  /\ stap.effectief_opladen > 0
  /\ stap.van_net > 0 /\ stap.van_net < stap.afname

\* ---- C11: no-battery equivalence.  With capacity 0 (soc_min = soc_max =
\* level = 0) and non-negative buckets every step charges and discharges
\* nothing, van_net = afname and naar_net = injectie, the cumulative grid
\* flows equal the baseline flows and the besparing is 0.
C11_NoBattery ==
  (cfg.batterij_capaciteit = 0 /\ NietNegatief) =>
    /\ i > 0 =>
         /\ stap.effectief_opladen = 0 /\ stap.potentieel_ontladen = 0
         /\ stap.van_net = stap.afname /\ stap.naar_net = stap.injectie
         /\ stap.batterij_niveau = 0
    /\ energie_van_net = energie_zonder_batterij_van_net
    /\ energie_naar_net = energie_zonder_batterij_naar_net
    /\ pc = "klaar" => samenvatting.besparing = 0

\* a finished run of a battery of capacity 0 over buckets with afname and
\* with injectie
C11_Witness ==
  /\ cfg.batterij_capaciteit = 0 /\ NietNegatief /\ pc = "klaar"
  /\ ~KLadenNul /\ ~KOntladenNul
  /\ energie_zonder_batterij_van_net > 0
  /\ energie_zonder_batterij_naar_net > 0

\* rows of the trace that are neither full nor empty
AantalTussen ==
  Cardinality({n \in DOMAIN resultaten :
                 ~IsVol(cfg, resultaten[n]) /\ ~IsLeeg(cfg, resultaten[n])})

\* ---- C12: dwell statistics.  For every run with at least one bucket and
\* every setting the sliders allow, the full and empty percentages lie in
\* [0,100] and count(full) + count(neither) + count(empty) <= bucket count:
\* no row of the trace is both full and empty.
C12_DwellStatistics ==
  (pc = "klaar" /\ BinnenSliders(cfg) /\ SchoneInvoer) =>
    /\ samenvatting.pct_vol >= 0 /\ samenvatting.pct_vol <= 1000
    /\ samenvatting.pct_leeg >= 0 /\ samenvatting.pct_leeg <= 1000
    /\ samenvatting.tijd_vol + AantalTussen + samenvatting.tijd_leeg
         <= samenvatting.tijd_totaal
    /\ \A n \in DOMAIN resultaten :
         ~(IsVol(cfg, resultaten[n]) /\ IsLeeg(cfg, resultaten[n]))

\* the settings of the concrete scenario: 5 kWh, 2.5 kW, efficiencies 0.95,
\* SoC limits 10% / 90%, reaction times 0 s
Scenario ==
  /\ cfg.batterij_capaciteit = 5 * kWh
  /\ 2 * cfg.max_vermogen_kW = 5 * kWh
  /\ cfg.eff_laden = 95 /\ cfg.eff_ontladen = 95
  /\ cfg.soc_min_pct = 10 /\ cfg.soc_max_pct = 90
  /\ cfg.reactietijd_laden = 0 /\ cfg.reactietijd_ontladen = 0

\* ---- C13: charging step result.  With eff_laden * vertraging_laden > 0 a
\* step has potentieel_opladen = injectie * eff * vertraging,
\* effectief_opladen = min(potentieel_opladen, max_energie_per_kwartier,
\* soc_max - level), adds it to the level and leaves
\* naar_net = max(injectie - effectief_opladen / (eff * vertraging), 0); in
\* the scenario the bucket (afname 0, injectie 1.0) from level 2.5 gives
\* effectief_opladen = 0.625, level 3.125 and naar_net = 1.0 - 0.625/0.95.
C13_ChargingStep ==
  /\ (i > 0 /\ ~KLadenNul) =>
       LET num == KNum(cfg.eff_laden, cfg.reactietijd_laden)
           den == KDen(cfg.eff_laden, cfg.reactietijd_laden)
       IN /\ 90000 * num = den * cfg.eff_laden * Vertraging(cfg.reactietijd_laden)
          /\ stap.potentieel_opladen * den = stap.injectie * num
          /\ stap.effectief_opladen =
               Min3(stap.potentieel_opladen, MaxEnergie,
                    SocMaxKWh - stap.niveau_voor)
          /\ stap.niveau_na_laden = stap.niveau_voor + stap.effectief_opladen
          /\ IF stap.injectie * num >= stap.effectief_opladen * den
             THEN stap.naar_net * num
                    = stap.injectie * num - stap.effectief_opladen * den
             ELSE stap.naar_net = 0
  /\ (Scenario /\ i = 1 /\ stap.afname = 0 /\ stap.injectie = kWh) =>
       /\ stap.niveau_voor * 2 = 5 * kWh
       /\ stap.effectief_opladen * 8 = 5 * kWh
       /\ resultaten[1].opladen * 8 = 5 * kWh
       /\ resultaten[1].batterij_niveau * 8 = 25 * kWh
       /\ resultaten[1].naar_net * 95 * 8 = (95 * 8 - 5 * 100) * kWh

\* the first step of the scenario on the bucket (afname 0, injectie 1.0)
C13_Witness ==
  /\ Scenario /\ i = 1 /\ stap.afname = 0 /\ stap.injectie = kWh
  /\ resultaten[1].naar_net > 0

TijdenVan(d) == {d[n].datetime : n \in DOMAIN d} \ {NaT}

\* ---- C15: single ordered pass.  The loop steps each distinct time of the
\* file once, in strictly increasing order; the trace has one row per
\* bucket in that order with the bucket's summed afname and injectie; the
\* level a step starts from is the level the step before recorded.
C15_SingleOrderedPass ==
  /\ pc \in {"simulatie", "klaar"} =>
       /\ Len(resultaten) = i
       /\ Len(df_kwartier) = Cardinality(TijdenVan(df))
       /\ \A n \in DOMAIN resultaten :
            /\ resultaten[n].tijd = df_kwartier[n].datetime
            /\ resultaten[n].tijd \in TijdenVan(df)
            /\ resultaten[n].afname
                 = SomKolom(df, resultaten[n].tijd, "afname", Len(df))
            /\ resultaten[n].injectie
                 = SomKolom(df, resultaten[n].tijd, "injectie", Len(df))
       /\ \A m, n \in DOMAIN resultaten :
            m < n => resultaten[m].tijd < resultaten[n].tijd
       /\ i > 0 =>
            /\ stap.niveau_voor =
                 (IF i = 1 THEN cfg.batterij_capaciteit \div 2
                  ELSE resultaten[i - 1].batterij_niveau)
            /\ resultaten[i].batterij_niveau = stap.batterij_niveau
            /\ batterij_niveau = stap.batterij_niveau
  /\ pc = "klaar" =>
       {resultaten[n].tijd : n \in DOMAIN resultaten} = TijdenVan(df)

\* a finished run over a file whose rows are not in time order, with a
\* change of level in the first bucket
C15_Witness ==
  /\ pc = "klaar" /\ Len(df) = 2 /\ SchoneInvoer
  /\ df[1].datetime > df[2].datetime
  /\ Len(resultaten) = 2
  /\ resultaten[1].batterij_niveau # cfg.batterij_capaciteit \div 2
  /\ resultaten[2].batterij_niveau # resultaten[1].batterij_niveau

\* the months of the buckets
MaandenVan(dfk) == {Maand(dfk[n].datetime) : n \in DOMAIN dfk}

\* ---- C16: monthly table shape.  maand_df has exactly one row per calendar
\* month that holds a bucket, in chronological order; a month without
\* buckets has no row.
C16_MonthlyTable ==
  pc = "klaar" =>
    /\ {maand_df[j].Maand : j \in DOMAIN maand_df} = MaandenVan(df_kwartier)
    /\ Len(maand_df) = Cardinality(MaandenVan(df_kwartier))
    /\ \A j, k \in DOMAIN maand_df :
         j < k => maand_df[j].Maand < maand_df[k].Maand

\* a finished run with buckets in months 1 and 3 and none in month 2
C16_Witness ==
  /\ pc = "klaar" /\ Len(maand_df) = 2
  /\ maand_df[1].Maand = 1 /\ maand_df[2].Maand = 3
  /\ df[1].datetime = 5

\* the energy delivered to the load over the trace
RECURSIVE SomOntladen(_)
SomOntladen(res) ==
  IF res = <<>> THEN 0 ELSE Head(res).ontladen + SomOntladen(Tail(res))

\* each step changes the level by effectief_opladen - potentieel_ontladen
\* and delivers at most potentieel_ontladen; the energy delivered over the
\* run is at most (capacity/2 - soc_min) plus the energy charged
Behoud ==
  /\ i > 0 =>
       /\ stap.batterij_niveau
            = stap.niveau_voor + stap.effectief_opladen
                - stap.potentieel_ontladen
       /\ stap.effectief_ontladen <= stap.potentieel_ontladen
  /\ SomOntladen(resultaten)
       <= (cfg.batterij_capaciteit \div 2 - SocMinKWh) + energie_op_batterij

C18_NoIncrease ==
  (BinnenSliders(cfg) /\ NietNegatief) =>
    /\ i > 0 =>
         /\ 0 <= stap.van_net /\ stap.van_net <= stap.afname
         /\ 0 <= stap.naar_net /\ stap.naar_net <= stap.injectie
    /\ \A n \in DOMAIN resultaten :
         /\ 0 <= resultaten[n].van_net
         /\ resultaten[n].van_net <= resultaten[n].afname
         /\ 0 <= resultaten[n].naar_net
         /\ resultaten[n].naar_net <= resultaten[n].injectie
    /\ energie_van_net <= energie_zonder_batterij_van_net
    /\ energie_naar_net <= energie_zonder_batterij_naar_net

\* a step within the sliders' ranges in which the battery takes part of the
\* injectie and serves part of the afname
C18_Witness ==
  /\ BinnenSliders(cfg) /\ NietNegatief /\ i > 0
  /\ cfg.eff_laden < 100 /\ cfg.eff_ontladen < 100
  /\ 0 < stap.van_net /\ stap.van_net < stap.afname
  /\ 0 < stap.naar_net /\ stap.naar_net < stap.injectie

\* ---- C19: empty input is handled.  A run over a file with the required
\* columns and no rows completes with a summary: zero totals, final level
\* capacity/2 and defined percentages, without a failure.
C19_EmptyInput ==
  (BinnenSliders(cfg) /\ df = <<>> /\ pc \notin {"wachten", "fout", "simulatie"}) =>
    /\ pc = "klaar"
    /\ batterij_niveau = cfg.batterij_capaciteit \div 2
    /\ energie_op_batterij = 0 /\ energie_van_net = 0 /\ energie_naar_net = 0

====
